---- MODULE Spec2Model ----
(***************************************************************************)
(* A model of the locale store of @tarxemo/react-i18n (src/src/index.tsx): *)
(* the pure normaliser normalizeLng and the LocaleProvider component with  *)
(* its state hook, its effect, its setLanguage handler and the context it  *)
(* publishes to the consumers that call useLocale.                         *)
(*                                                                         *)
(* A JavaScript string is a sequence of one-character strings, so that     *)
(* toLowerCase, includes and startsWith are computed and not assumed.      *)
(***************************************************************************)
EXTENDS Naturals, Sequences, FiniteSets, TLC

VARIABLES
    \* -- the provider's props (src/src/index.tsx:34-40) --
    supportedLanguages,  \* prop supportedLanguages, fixed for the provider's lifetime
    fallbackLanguage,    \* prop fallbackLanguage
    storageKey,          \* prop storageKey
    \* -- the host environment --
    hasWindow,           \* typeof window !== 'undefined'
    hasDocument,         \* typeof document !== 'undefined'
    localStorage,        \* key -> stored string, or null
    docLang,             \* document.documentElement.lang
    \* -- the translation engine (prop i18n) --
    i18nLanguage,        \* i18n.language
    changeArg,           \* the argument of the last i18n.changeLanguage call
    changeResult,        \* how that call ended: "none", "ok" or "threw"
    \* -- the provider --
    language,            \* the state held by useState
    value,               \* the memoised value last given to LocaleContext.Provider
    consulted,           \* whether the construction called localStorage.getItem
    written,             \* the value this session last gave to localStorage.setItem
    \* -- the consumers --
    consumers,           \* per consumer: status and the language useLocale gave it
    \* -- the last call --
    lng,                 \* the argument last given to normalizeLng
    norm,                \* what normalizeLng returned for it
    outcome,             \* how the last operation ended
    previous             \* what the session before this one left behind

envVars    == <<hasWindow, hasDocument, localStorage, docLang>>
engineVars == <<i18nLanguage, changeArg, changeResult>>
storeVars  == <<storageKey, language, value, consulted, written, consumers, previous>>
configVars == <<supportedLanguages, fallbackLanguage>>
callVars   == <<lng, norm, outcome>>

vars == <<configVars, envVars, engineVars, storeVars, callVars>>

----------------------------------------------------------------------------
(* Values.                                                                 *)

\* JavaScript's undefined: a value that is no string (no string has a
\* character of more than one letter).
undefined == <<"undefined">>

\* The empty string.
EmptyString == <<>>

\* JavaScript's null, which Storage.getItem returns for a key it does not hold.
null == <<"null">>

\* The letters that occur in the tags of the model, in their two cases. Every
\* other character ("-") is its own lower and upper case.
LowerLetters == <<"d", "e", "f", "n", "r", "s", "u">>
UpperLetters == <<"D", "E", "F", "N", "R", "S", "U">>

\* String.prototype.toLowerCase on one character.
lowerChar(c) ==
    IF \E i \in DOMAIN UpperLetters : UpperLetters[i] = c
    THEN LowerLetters[CHOOSE i \in DOMAIN UpperLetters : UpperLetters[i] = c]
    ELSE c

\* String.prototype.toUpperCase on one character.
upperChar(c) ==
    IF \E i \in DOMAIN LowerLetters : LowerLetters[i] = c
    THEN UpperLetters[CHOOSE i \in DOMAIN LowerLetters : LowerLetters[i] = c]
    ELSE c

toLowerCase(s) == [i \in DOMAIN s |-> lowerChar(s[i])]
toUpperCase(s) == [i \in DOMAIN s |-> upperChar(s[i])]

\* String.prototype.startsWith: p is a prefix of s.
startsWith(s, p) == Len(p) <= Len(s) /\ SubSeq(s, 1, Len(p)) = p

\* Array.prototype.includes.
includes(arr, x) == \E i \in DOMAIN arr : arr[i] = x

\* JavaScript truthiness of a string-or-undefined value.
Truthy(x) == x # undefined /\ x # null /\ x # EmptyString

----------------------------------------------------------------------------
(* normalizeLng                                                            *)

\* A variant of the loop that keeps the last element that low starts with.
FirstPrefix_lastWins(low, supported) ==
    LET hits == {i \in DOMAIN supported : startsWith(low, supported[i])}
    IN  supported[CHOOSE i \in hits : \A j \in hits : i >= j]

\* The for loop over supported: the first element that low starts with.
FirstPrefix(low, supported) ==
    LET hits == {i \in DOMAIN supported : startsWith(low, supported[i])}
    IN  supported[CHOOSE i \in hits : \A j \in hits : i <= j]

\* A variant that returns the lowercased request on a prefix match.
normalizeLng_prefixReturnsLow(l, supported, fallback) ==
    IF ~Truthy(l) THEN fallback
    ELSE LET low == toLowerCase(l)
         IN  IF includes(supported, low) THEN low
             ELSE IF \E i \in DOMAIN supported : startsWith(low, supported[i])
                  THEN low
                  ELSE fallback

\* A variant that compares without folding the case.
normalizeLng_caseSensitive(l, supported, fallback) ==
    IF ~Truthy(l) THEN fallback
    ELSE IF includes(supported, l) THEN l
         ELSE IF \E i \in DOMAIN supported : startsWith(l, supported[i])
              THEN FirstPrefix(l, supported)
              ELSE fallback

\* A variant without the exact-match scan.
normalizeLng_prefixOnly(l, supported, fallback) ==
    IF ~Truthy(l) THEN fallback
    ELSE LET low == toLowerCase(l)
         IN  IF \E i \in DOMAIN supported : startsWith(low, supported[i])
             THEN FirstPrefix(low, supported)
             ELSE fallback

normalizeLng(l, supported, fallback) ==
    IF ~Truthy(l) THEN fallback
    ELSE LET low == toLowerCase(l)
         IN  IF includes(supported, low) THEN low
             ELSE IF \E i \in DOMAIN supported : startsWith(low, supported[i])
                  THEN FirstPrefix(low, supported)
                  ELSE fallback

----------------------------------------------------------------------------
(* The configurations, environments and inputs of the provider.            *)

en   == <<"e", "n">>
es   == <<"e", "s">>
fr   == <<"f", "r">>
de   == <<"d", "e">>
enUS == <<"e", "n", "-", "U", "S">>
FR   == <<"F", "R">>

\* The props a provider is given: the defaults of the source, the set of the
\* README, and two fallbacks outside the supported set (one of which a
\* supported tag is a prefix of).
Configurations ==
    { [supported |-> <<en>>,         fallback |-> en,               key |-> "language"],
      [supported |-> <<en, es, fr>>, fallback |-> en,               key |-> "app_language"],
      [supported |-> <<es, fr>>,     fallback |-> en,               key |-> "language"],
      [supported |-> <<en, fr>>,     fallback |-> toLowerCase(enUS), key |-> "language"] }

StorageKeys == {"language", "app_language"}

\* What callers ask setLanguage for.
Requests == {EmptyString, fr, FR, enUS, de}

\* What i18n.language is when a provider is constructed.
EngineLanguages == {undefined, enUS, de}

\* What localStorage holds under the storage key before the first session.
StoredBefore == {null, EmptyString, es, enUS}

NumConsumers == 2
Consumers == 1..NumConsumers

----------------------------------------------------------------------------
(* LocaleProvider                                                          *)

\* Storage.getItem / Storage.setItem.
getItem(storage, key) == storage[key]
setItem(storage, key, v) == [storage EXCEPT ![key] = v]

\* A variant that prefers the stored value to the engine's language.
InitialHint_storageFirst(engineLanguage, win, storage, key) ==
    IF win /\ Truthy(getItem(storage, key)) THEN getItem(storage, key)
    ELSE IF Truthy(engineLanguage) THEN engineLanguage ELSE undefined

\* A variant that reads the default key whatever the storageKey prop is.
InitialHint_defaultKey(engineLanguage, win, storage, key) ==
    IF Truthy(engineLanguage) THEN engineLanguage
    ELSE IF win
         THEN IF Truthy(getItem(storage, "language")) THEN getItem(storage, "language")
              ELSE undefined
         ELSE undefined

\* The first argument of normalizeLng at construction:
\*   i18n.language || (typeof window !== 'undefined'
\*                       ? localStorage.getItem(storageKey) || undefined : undefined)
InitialHint(engineLanguage, win, storage, key) ==
    IF Truthy(engineLanguage) THEN engineLanguage
    ELSE IF win
         THEN IF Truthy(getItem(storage, key)) THEN getItem(storage, key) ELSE undefined
         ELSE undefined

\* Whether that expression evaluates localStorage.getItem.
ReadsStorage(engineLanguage, win) == ~Truthy(engineLanguage) /\ win

\* The context value built by useMemo (setLanguage, a function, is left out).
ContextValue(l, supported) == [language |-> l, supportedLanguages |-> supported]

Unmounted == [status |-> "unmounted", language |-> undefined]

NoSession == [started |-> FALSE, language |-> undefined, persisted |-> undefined]

\* The provider's first render and its effect, for given props, engine
\* language and storage content: the state it leaves.
FirstRender(cfg, engineLanguage, storage, win, doc) ==
    LET hint    == InitialHint(engineLanguage, win, storage, cfg.key)
        initial == normalizeLng(hint, cfg.supported, cfg.fallback)
    IN  [hint      |-> hint,
         language  |-> initial,
         value     |-> ContextValue(initial, cfg.supported),
         consulted |-> ReadsStorage(engineLanguage, win),
         docLang   |-> IF doc THEN initial ELSE undefined]

Init ==
    \E cfg \in Configurations, win \in BOOLEAN, doc \in BOOLEAN,
       e \in EngineLanguages, st \in StoredBefore :
        LET storage == [k \in StorageKeys |-> IF win /\ k = cfg.key THEN st ELSE null]
            r == FirstRender(cfg, e, storage, win, doc)
        IN  /\ supportedLanguages = cfg.supported
            /\ fallbackLanguage = cfg.fallback
            /\ storageKey = cfg.key
            /\ hasWindow = win
            /\ hasDocument = doc
            /\ localStorage = storage
            /\ docLang = r.docLang
            /\ i18nLanguage = e
            /\ changeArg = undefined
            /\ changeResult = "none"
            /\ language = r.language
            /\ value = r.value
            /\ consulted = r.consulted
            /\ written = undefined
            /\ consumers = [c \in Consumers |-> Unmounted]
            /\ lng = r.hint
            /\ norm = r.language
            /\ outcome = "rendered"
                    /\ previous = NoSession

\* A variant that stores the requested tag as it was given.
setLanguage_persistsRaw(t) ==
    LET n == normalizeLng(t, supportedLanguages, fallbackLanguage)
    IN  /\ lng' = t
        /\ norm' = n
        /\ changeArg' = n
        /\ \E engineThrows \in BOOLEAN :
            IF engineThrows
            THEN /\ changeResult' = "threw"
                 /\ outcome' = "threw"
                 /\ UNCHANGED <<i18nLanguage, language, localStorage, written, docLang>>
            ELSE /\ changeResult' = "ok"
                 /\ i18nLanguage' = n
                 /\ language' = n
                 /\ localStorage' = IF hasWindow THEN setItem(localStorage, storageKey, t)
                                    ELSE localStorage
                 /\ written' = IF hasWindow THEN t ELSE written
                 /\ docLang' = IF hasDocument THEN n ELSE docLang
                 /\ outcome' = "returned"
        /\ UNCHANGED <<configVars, storageKey, hasWindow, hasDocument, value, consulted,
                       consumers, previous>>

\* A variant without the typeof window guard: where there is no window the
\* access to localStorage throws a ReferenceError and the handler ends there.
setLanguage_unguardedStorage(t) ==
    LET n == normalizeLng(t, supportedLanguages, fallbackLanguage)
    IN  /\ lng' = t
        /\ norm' = n
        /\ changeArg' = n
        /\ \E engineThrows \in BOOLEAN :
            IF engineThrows
            THEN /\ changeResult' = "threw"
                 /\ outcome' = "threw"
                 /\ UNCHANGED <<i18nLanguage, language, localStorage, written, docLang>>
            ELSE /\ changeResult' = "ok"
                 /\ i18nLanguage' = n
                 /\ language' = n
                 /\ IF hasWindow
                    THEN /\ localStorage' = setItem(localStorage, storageKey, n)
                         /\ written' = n
                         /\ docLang' = IF hasDocument THEN n ELSE docLang
                         /\ outcome' = "returned"
                    ELSE /\ outcome' = "ReferenceError"
                         /\ UNCHANGED <<localStorage, written, docLang>>
        /\ UNCHANGED <<configVars, storageKey, hasWindow, hasDocument, value, consulted,
                       consumers, previous>>

\* A variant that updates the state, the storage and the attribute before it
\* calls the engine.
setLanguage_engineLast(t) ==
    LET n == normalizeLng(t, supportedLanguages, fallbackLanguage)
    IN  /\ lng' = t
        /\ norm' = n
        /\ changeArg' = n
        /\ language' = n
        /\ localStorage' = IF hasWindow THEN setItem(localStorage, storageKey, n)
                           ELSE localStorage
        /\ written' = IF hasWindow THEN n ELSE written
        /\ docLang' = IF hasDocument THEN n ELSE docLang
        /\ \E engineThrows \in BOOLEAN :
            IF engineThrows
            THEN /\ changeResult' = "threw"
                 /\ outcome' = "threw"
                 /\ UNCHANGED i18nLanguage
            ELSE /\ changeResult' = "ok"
                 /\ i18nLanguage' = n
                 /\ outcome' = "returned"
        /\ UNCHANGED <<configVars, storageKey, hasWindow, hasDocument, value, consulted,
                       consumers, previous>>

\* setLanguage, lines 57-69. The engine's changeLanguage either returns or
\* throws; a throw leaves the handler at line 59.
setLanguage(t) ==
    LET n == normalizeLng(t, supportedLanguages, fallbackLanguage)
    IN  /\ lng' = t
        /\ norm' = n
        /\ changeArg' = n
        /\ \E engineThrows \in BOOLEAN :
            IF engineThrows
            THEN /\ changeResult' = "threw"
                 /\ outcome' = "threw"
                 /\ UNCHANGED <<i18nLanguage, language, localStorage, written, docLang>>
            ELSE /\ changeResult' = "ok"
                 /\ i18nLanguage' = n
                 /\ language' = n
                 /\ localStorage' = IF hasWindow THEN setItem(localStorage, storageKey, n)
                                    ELSE localStorage
                 /\ written' = IF hasWindow THEN n ELSE written
                 /\ docLang' = IF hasDocument THEN n ELSE docLang
                 /\ outcome' = "returned"
        /\ UNCHANGED <<configVars, storageKey, hasWindow, hasDocument, value, consulted,
                       consumers, previous>>

\* A variant whose useMemo does not depend on language: the re-render runs the
\* effect but publishes the value it had.
Commit_staleMemo ==
    /\ value.language # language
    /\ docLang' = IF hasDocument THEN language ELSE docLang
    /\ UNCHANGED <<configVars, storageKey, hasWindow, hasDocument, localStorage, engineVars,
                   language, value, consumers, consulted, written, previous, callVars>>

\* The host's deferred re-render after the state changed: useMemo builds a new
\* value, every consumer below the provider renders with it, and the effect of
\* lines 51-55 runs.
Commit ==
    /\ value.language # language
    /\ value' = ContextValue(language, supportedLanguages)
    /\ consumers' = [c \in Consumers |->
                        IF consumers[c].status = "mounted"
                        THEN [consumers[c] EXCEPT !.language = language]
                        ELSE consumers[c]]
    /\ docLang' = IF hasDocument THEN language ELSE docLang
    /\ UNCHANGED <<configVars, storageKey, hasWindow, hasDocument, localStorage, engineVars,
                   language, consulted, written, previous, callVars>>

\* A component below the provider mounts and calls useLocale, which gives it
\* the value the provider last published.
Mount(c) ==
    /\ consumers[c].status = "unmounted"
    /\ consumers' = [consumers EXCEPT ![c] =
                        [status |-> "mounted", language |-> value.language]]
    /\ UNCHANGED <<configVars, envVars, engineVars, storageKey, language, value, consulted,
                   written, previous, callVars>>

Unmount(c) ==
    /\ consumers[c].status # "unmounted"
    /\ consumers' = [consumers EXCEPT ![c] = Unmounted]
    /\ UNCHANGED <<configVars, envVars, engineVars, storageKey, language, value, consulted,
                   written, previous, callVars>>

\* The session ends and a provider is constructed again with the same props
\* in the same environment: the storage is what the session left, the engine
\* starts with any language or none.
Reload ==
    \E e \in EngineLanguages :
        LET cfg == [supported |-> supportedLanguages, fallback |-> fallbackLanguage,
                    key |-> storageKey]
            r == FirstRender(cfg, e, localStorage, hasWindow, hasDocument)
        IN  /\ previous' = [started |-> TRUE, language |-> language, persisted |-> written]
            /\ docLang' = r.docLang
            /\ i18nLanguage' = e
            /\ changeArg' = undefined
            /\ changeResult' = "none"
            /\ language' = r.language
            /\ value' = r.value
            /\ consulted' = r.consulted
            /\ written' = undefined
            /\ consumers' = [c \in Consumers |-> Unmounted]
            /\ lng' = r.hint
            /\ norm' = r.language
            /\ outcome' = "rendered"
            /\ UNCHANGED <<configVars, storageKey, hasWindow, hasDocument, localStorage>>

Next ==
    \/ \E t \in Requests : setLanguage(t)
    \/ Commit
    \/ \E c \in Consumers : Mount(c)
    \/ \E c \in Consumers : Unmount(c)
    \/ Reload

Spec == Init /\ [][Next]_vars

\* The host runs a scheduled re-render: it is not postponed for ever.
LiveSpec == Spec /\ WF_vars(Commit)

----------------------------------------------------------------------------
(* The normaliser on its own: for every configuration over a small         *)
(* alphabet, applied to every request and then again to its own result.    *)

MaxTagLen == 2
MaxReqLen == 4
MaxSupported == 2

StringsOver(chars, n) == UNION {[1..k -> chars] : k \in 0..n}

\* Configured tags are lowercase identifiers: a letter, then letters and hyphens.
ConfigTags == {s \in StringsOver({"e", "-"}, MaxTagLen) : s # EmptyString /\ s[1] = "e"}

\* A requested tag is any string, or undefined.
RequestedTags == StringsOver({"e", "E", "-"}, MaxReqLen) \cup {undefined}

SupportedLists == UNION {[1..k -> ConfigTags] : k \in 0..MaxSupported}

\* No provider is installed while the normaliser is exercised on its own.
NoProvider ==
    /\ storageKey = "language"
    /\ hasWindow = FALSE
    /\ hasDocument = FALSE
    /\ localStorage = [k \in {"language"} |-> null]
    /\ docLang = undefined
    /\ i18nLanguage = undefined
    /\ changeArg = undefined
    /\ changeResult = "none"
    /\ language = undefined
    /\ value = ContextValue(undefined, <<>>)
    /\ consulted = FALSE
    /\ written = undefined
    /\ consumers = <<>>
    /\ previous = NoSession

NormInit ==
    /\ supportedLanguages \in SupportedLists
    /\ fallbackLanguage \in ConfigTags
    /\ lng = undefined
    /\ norm = undefined
    /\ outcome = "configured"
    /\ NoProvider

Normalize(t) ==
    /\ outcome = "configured"
    /\ lng' = t
    /\ norm' = normalizeLng(t, supportedLanguages, fallbackLanguage)
    /\ outcome' = "normalized"
    /\ UNCHANGED <<configVars, envVars, engineVars, storeVars>>

NormalizeAgain ==
    /\ outcome = "normalized"
    /\ lng' = norm
    /\ norm' = normalizeLng(norm, supportedLanguages, fallbackLanguage)
    /\ outcome' = "normalized again"
    /\ UNCHANGED <<configVars, envVars, engineVars, storeVars>>

NormNext == (\E t \in RequestedTags : Normalize(t)) \/ NormalizeAgain

NormSpec == NormInit /\ [][NormNext]_vars

----------------------------------------------------------------------------
(* Properties.                                                             *)

\* p is a prefix of s.
IsPrefix(p, s) == Len(p) <= Len(s) /\ \A i \in 1..Len(p) : p[i] = s[i]

Stored == localStorage[storageKey]

\* normalizeLng(fallback) = fallback: the fallback is supported, or no
\* supported tag is a prefix of it.
FallbackResolvesToItself ==
    \/ \E i \in DOMAIN supportedLanguages : supportedLanguages[i] = fallbackLanguage
    \/ ~\E i \in DOMAIN supportedLanguages : IsPrefix(supportedLanguages[i], fallbackLanguage)

(* C1: in every state of the provider, after construction and after any    *)
(* calls of setLanguage, the current language (the state, and the language *)
(* last published to the consumers) is the fallback tag or an element of   *)
(* the supported set.                                                      *)
CurrentIsSupportedOrFallback ==
    \A l \in {language, value.language} :
        \/ l = fallbackLanguage
        \/ \E i \in DOMAIN supportedLanguages : supportedLanguages[i] = l

\* A call has returned whose requested tag is neither supported nor the fallback.
UnsupportedRequestResolved ==
    /\ outcome = "returned"
    /\ lng # fallbackLanguage
    /\ ~\E i \in DOMAIN supportedLanguages : supportedLanguages[i] = lng
    /\ language # fallbackLanguage

(* C2: when setLanguage(t) has returned, with the engine call succeeding   *)
(* and window and document present, the current language, the value stored *)
(* under the storage key, the argument given to changeLanguage and the     *)
(* document's lang attribute all equal normalizeLng(t, supported,          *)
(* fallback).                                                              *)
SetLanguageAppliesNormalized ==
    (outcome = "returned" /\ hasWindow /\ hasDocument) =>
        LET n == normalizeLng(lng, supportedLanguages, fallbackLanguage)
        IN  /\ language = n
            /\ Stored = n
            /\ changeArg = n
            /\ docLang = n

\* A call has returned, in a browser, whose requested tag was not normalized.
NormalizedRequestApplied ==
    /\ outcome = "returned"
    /\ hasWindow
    /\ hasDocument
    /\ lng # language
    /\ Stored = language

\* The provider has just been constructed again, with no engine language,
\* after a session in which setLanguage stored a value.
SecondStoreAfterPersisting ==
    /\ outcome = "rendered"
    /\ previous.started
    /\ previous.persisted # undefined
    /\ i18nLanguage = undefined

(* C3 as stated: a provider constructed again with the same props and no   *)
(* engine language, after a session whose setLanguage calls stored a       *)
(* value, starts with that value, which is the language the session ended  *)
(* with.                                                                   *)
SecondStoreRestoresPersisted ==
    SecondStoreAfterPersisting =>
        /\ language = previous.persisted
        /\ language = previous.language

(* C3 amended: the same, provided the fallback tag is a member of the      *)
(* supported set or no supported tag is a prefix of it.                    *)
SecondStoreRestoresPersistedIfFallbackFixed ==
    (SecondStoreAfterPersisting /\ FallbackResolvesToItself) =>
        /\ language = previous.persisted
        /\ language = previous.language

\* A second provider has restored a language that is not the fallback.
SecondStoreRestoredSupported ==
    /\ SecondStoreAfterPersisting
    /\ FallbackResolvesToItself
    /\ language = previous.persisted
    /\ language # fallbackLanguage

\* A second provider has restored a fallback that lies outside the supported set.
SecondStoreRestoredFallback ==
    /\ SecondStoreAfterPersisting
    /\ FallbackResolvesToItself
    /\ language = previous.persisted
    /\ language = fallbackLanguage
    /\ ~\E i \in DOMAIN supportedLanguages : supportedLanguages[i] = fallbackLanguage

(* C4: after construction the current language is normalizeLng(h) where h  *)
(* is the engine's language if it has one, otherwise the value stored      *)
(* under the storage key if there is a window and a value, otherwise       *)
(* undefined; the storage is not read when the engine has a language.      *)
InitialFromEngineThenStorage ==
    outcome = "rendered" =>
        LET h == IF i18nLanguage # undefined THEN i18nLanguage
                 ELSE IF hasWindow /\ Stored # null THEN Stored
                 ELSE undefined
        IN  /\ language = normalizeLng(h, supportedLanguages, fallbackLanguage)
            /\ i18nLanguage # undefined => ~consulted
            /\ (i18nLanguage = undefined /\ ~(hasWindow /\ Stored # null))
                  => language = fallbackLanguage

\* A provider was constructed with an engine language while the storage held
\* a value that resolves to another language.
EnginePreferredToStorage ==
    /\ outcome = "rendered"
    /\ i18nLanguage # undefined
    /\ hasWindow
    /\ Stored # null
    /\ normalizeLng(Stored, supportedLanguages, fallbackLanguage) # language

(* C5: normalizeLng(t, S, F) is F when t is undefined or empty; when some  *)
(* element of S is a prefix of lowercase(t) and lowercase(t) is no element *)
(* of S, it is the first such element of S; and it is F when lowercase(t)  *)
(* is no element of S and no element of S is a prefix of it.               *)
NormalizeRules ==
    outcome \in {"normalized", "normalized again"} =>
        IF lng = undefined \/ lng = EmptyString
        THEN norm = fallbackLanguage
        ELSE LET low   == toLowerCase(lng)
                 exact == \E i \in DOMAIN supportedLanguages : supportedLanguages[i] = low
                 hits  == {i \in DOMAIN supportedLanguages :
                              IsPrefix(supportedLanguages[i], low)}
             IN  /\ (~exact /\ hits # {}) =>
                        \E i \in hits : /\ \A j \in hits : i <= j
                                        /\ norm = supportedLanguages[i]
                 /\ (~exact /\ hits = {}) => norm = fallbackLanguage

\* A request with no exact match of which two different supported tags are
\* prefixes, resolved to the first of them.
FirstOfTwoPrefixesChosen ==
    /\ outcome = "normalized"
    /\ lng # undefined
    /\ Len(supportedLanguages) >= 2
    /\ supportedLanguages[1] # supportedLanguages[2]
    /\ IsPrefix(supportedLanguages[1], toLowerCase(lng))
    /\ IsPrefix(supportedLanguages[2], toLowerCase(lng))
    /\ ~\E i \in DOMAIN supportedLanguages : supportedLanguages[i] = toLowerCase(lng)
    /\ norm = supportedLanguages[1]

(* C6: for every element t of the supported set, normalizeLng(t, S, F) = t *)
(* and normalizeLng(uppercase(t), S, F) = t.                               *)
SupportedTagsAreFixed ==
    outcome = "normalized" =>
        \A i \in DOMAIN supportedLanguages :
            (lng = supportedLanguages[i] \/ lng = toUpperCase(supportedLanguages[i]))
                => norm = supportedLanguages[i]

\* The uppercase form of a supported tag that is not the fallback was resolved.
UppercaseSupportedResolved ==
    /\ outcome = "normalized"
    /\ \E i \in DOMAIN supportedLanguages :
          /\ lng = toUpperCase(supportedLanguages[i])
          /\ lng # supportedLanguages[i]
          /\ norm = supportedLanguages[i]
    /\ norm # fallbackLanguage

(* C7 as stated: normalizeLng is idempotent for every t, S and F, also     *)
(* when F is no element of S: applied to its own result it returns that    *)
(* result.                                                                 *)
NormalizeIdempotent ==
    outcome = "normalized again" => norm = lng

(* C7 amended: normalizeLng is idempotent for every t whenever F is an     *)
(* element of S or no element of S is a prefix of F.                       *)
NormalizeIdempotentIfFallbackFixed ==
    (outcome = "normalized again" /\ FallbackResolvesToItself) => norm = lng

\* The fallback, which is no element of the supported set, was the first
\* result and the second.
FallbackOutsideSupportedKept ==
    /\ outcome = "normalized again"
    /\ supportedLanguages # <<>>
    /\ ~\E i \in DOMAIN supportedLanguages : supportedLanguages[i] = fallbackLanguage
    /\ lng = fallbackLanguage
    /\ norm = fallbackLanguage

\* Consumer c is mounted and was last given a language other than the current one.
Stale(c) == consumers[c].status = "mounted" /\ consumers[c].language # language

(* C8: a consumer that is mounted below the provider when the language     *)
(* changes, and stays mounted, is eventually given the provider's current  *)
(* language, provided the host runs the re-render it scheduled; none stays *)
(* with a stale language for ever.                                         *)
ConsumersEventuallyCurrent ==
    \A c \in Consumers : Stale(c) ~> ~Stale(c)

\* After a call that changed the language, every consumer is mounted and has
\* been given the new language.
ConsumersSawNewLanguage ==
    /\ outcome = "returned"
    /\ language = norm
    /\ language # fallbackLanguage
    /\ value.language = language
    /\ \A c \in Consumers :
          consumers[c].status = "mounted" /\ consumers[c].language = language

Degraded == ~hasWindow \/ ~hasDocument

(* C9: without a window and/or without a document, neither construction    *)
(* nor setLanguage fails; when the engine call succeeds setLanguage(t)     *)
(* has given the engine normalizeLng(t, supported, fallback) and made it   *)
(* the current language, and only the write to the missing storage or      *)
(* attribute is left out.                                                  *)
DegradedEnvironmentTolerated ==
    Degraded =>
        /\ outcome \in {"rendered", "returned", "threw"}
        /\ outcome = "threw" => changeResult = "threw"
        /\ outcome = "rendered" =>
              language = normalizeLng(lng, supportedLanguages, fallbackLanguage)
        /\ changeResult = "ok" =>
              LET n == normalizeLng(lng, supportedLanguages, fallbackLanguage)
              IN  /\ outcome = "returned"
                  /\ changeArg = n
                  /\ language = n
                  /\ hasWindow => Stored = n
                  /\ hasDocument => docLang = n
        /\ ~hasWindow => (written = undefined /\ \A k \in StorageKeys : localStorage[k] = null)
        /\ ~hasDocument => docLang = undefined

\* Without a window, but with a document, a call has returned and changed
\* the language.
DegradedCallReturned ==
    /\ ~hasWindow
    /\ hasDocument
    /\ outcome = "returned"
    /\ lng # language
    /\ language # fallbackLanguage
    /\ docLang = language

\* The step of a setLanguage call: either all of the current language, the
\* stored value and the attribute are left as they were, or all are the
\* resolved tag.
AllOrNothingStep ==
    outcome' # "rendered" =>
        /\ changeResult' = "threw" =>
              (outcome' = "threw" /\ UNCHANGED <<language, localStorage, docLang>>)
        /\ \/ UNCHANGED <<language, localStorage, docLang>>
           \/ /\ language' = norm'
              /\ localStorage'[storageKey] = norm'
              /\ docLang' = norm'

\* The same, where the stored value and the attribute count only if there is
\* a window and a document.
AllAvailableOrNothingStep ==
    outcome' # "rendered" =>
        /\ changeResult' = "threw" =>
              (outcome' = "threw" /\ UNCHANGED <<language, localStorage, docLang>>)
        /\ \/ UNCHANGED <<language, localStorage, docLang>>
           \/ /\ language' = norm'
              /\ hasWindow => localStorage'[storageKey] = norm'
              /\ hasDocument => docLang' = norm'

(* C10 as stated: if changeLanguage throws during setLanguage(t) the call  *)
(* throws and the current language, the stored value and the attribute are *)
(* unchanged; after any call, either none of the three or all of the three *)
(* have been updated to the resolved tag.                                  *)
SetLanguageAllOrNothing == [][AllOrNothingStep]_vars

(* C10 amended: if changeLanguage throws during setLanguage(t) the call    *)
(* throws and the current language, the stored value and the attribute are *)
(* unchanged; after any call, either none of them has been updated or the  *)
(* current language and each of the stored value and the attribute whose   *)
(* collaborator (window, document) is present have been updated to the     *)
(* resolved tag.                                                           *)
SetLanguageAllAvailableOrNothing == [][AllAvailableOrNothingStep]_vars

\* In a browser, a call has thrown that would have changed the language, the
\* stored value and the attribute.
FailedCallChangedNothing ==
    /\ outcome = "threw"
    /\ hasWindow
    /\ hasDocument
    /\ norm # language
    /\ norm # Stored
    /\ norm # docLang

====
